---- MODULE Spec2Model ----
(***************************************************************************)
(* The code-generation request pipeline of gpt-macro: the two backends     *)
(* (ChatGPT in internal/chatgpt.rs, TextCompletion in                      *)
(* internal/text_completion.rs) behind the CodeCompletion trait, the one   *)
(* HTTP round trip each code_completion() makes, and extract_code().       *)
(*                                                                         *)
(* Text is a sequence of one-character strings, so that str::split and     *)
(* str::trim are computed character by character as the standard library   *)
(* computes them.                                                          *)
(***************************************************************************)
EXTENDS Integers, Sequences, FiniteSets, TLC

VARIABLES
    backend,    \* which implementation of CodeCompletion the session is
    messages,   \* ChatGPT.chat.messages
    prompt,     \* TextCompletion.request.prompt
    response,   \* TextCompletion.response (an Option)
    apiKey,     \* whether OPENAI_API_KEY is set in the process environment
    httpProxy,  \* HTTP_PROXY in the process environment: unset, valid, invalid
    requests,   \* the HTTP requests that reached the network, in order
    calls,      \* the calls made on the session so far, with their results
    input       \* the text handed to extract_code when it is checked alone

vars == <<backend, messages, prompt, response, apiKey, httpProxy, requests, calls, input>>

----------------------------------------------------------------------------
(* Bounds *)

MaxCalls == 4       \* calls made on one session
MaxPieces == 3      \* pieces a free-form reply text is put together from
MaxBodyPieces == 2  \* pieces the text T inside a wrapped fence is put together from

----------------------------------------------------------------------------
(* Text *)

Concat(ss) ==
    LET RECURSIVE cat(_)
        cat(i) == IF i > Len(ss) THEN <<>> ELSE ss[i] \o cat(i + 1)
    IN cat(1)

\* "tick" stands for the backquote character
TICK == "tick"
TICKS == <<TICK, TICK, TICK>>
RUST == <<"r", "u", "s", "t">>
FENCE_OPEN == TICKS \o RUST     \* the pattern of split of the opening fence, three backquotes and rust
FENCE_CLOSE == TICKS            \* the pattern of split of the closing fence, three backquotes
NL == <<"\n">>
SP == <<" ">>

\* char::is_whitespace, on the characters of the alphabet of the model
IsWhitespace(c) == c \in {" ", "\n"}

\* the index of the first match of pat in s, 0 when there is none
Find(s, pat) ==
    LET M == {i \in 1..(Len(s) - Len(pat) + 1) : SubSeq(s, i, i + Len(pat) - 1) = pat}
    IN IF M = {} THEN 0 ELSE CHOOSE i \in M : \A j \in M : i <= j

\* str::split(pat): the pieces between the non-overlapping matches of pat,
\* found left to right; a text without a match is its own single piece
RECURSIVE Split(_, _)
Split(s, pat) ==
    LET i == Find(s, pat)
    IN IF i = 0 THEN <<s>>
       ELSE <<SubSeq(s, 1, i - 1)>> \o Split(SubSeq(s, i + Len(pat), Len(s)), pat)

RECURSIVE TrimStart(_)
TrimStart(s) ==
    IF s # <<>> /\ IsWhitespace(Head(s)) THEN TrimStart(Tail(s)) ELSE s

RECURSIVE TrimEnd(_)
TrimEnd(s) ==
    IF s # <<>> /\ IsWhitespace(s[Len(s)]) THEN TrimEnd(SubSeq(s, 1, Len(s) - 1)) ELSE s

\* str::trim
Trim(s) == TrimEnd(TrimStart(s))

\* Option and Iterator::nth (nth(0) is next())
None == [some |-> FALSE, val |-> <<>>]
Some(v) == [some |-> TRUE, val |-> v]
Nth(it, n) == IF Len(it) > n THEN Some(it[n + 1]) ELSE None

\* Result<String, Box<dyn Error>>, and a panic that unwinds out of the call
Ok(v) == [kind |-> "Ok", error |-> "", msg |-> "", value |-> v]
Err(e, m) == [kind |-> "Err", error |-> e, msg |-> m, value |-> <<>>]
Panic(m) == [kind |-> "Panic", error |-> "", msg |-> m, value |-> <<>>]
Unit == Ok(<<>>)

----------------------------------------------------------------------------
(* The environment and the remote service *)

Backends == {"ChatGPT", "TextCompletion"}
ProxyStates == {"unset", "valid", "invalid"}

\* What the one round trip of a request comes back with: the request or the
\* reading of the body fails; the body is not UTF-8 or not JSON of the
\* expected shape; or it parses, with the texts of its choices in order.
TransportFail == [t |-> "transport_fail", choices |-> <<>>]
BadBody == [t |-> "bad_body", choices |-> <<>>]
Parsed(cs) == [t |-> "parsed", choices |-> cs]
NoRemote == [t |-> "none", choices |-> <<>>]

\* the connector the client is built on (the if let on HTTP_PROXY and map_or_else)
Connector(proxy) == IF proxy = "unset" THEN "direct" ELSE "proxy"

HttpRequest(url, proxy, body) ==
    [method |-> "POST", url |-> url, connector |-> Connector(proxy),
     content_type |-> "application/json", authorization |-> "Bearer", body |-> body]

----------------------------------------------------------------------------
(* extract_code: the two splits and the trim, the same in both backends *)

ExtractNoTrim(content) ==
    LET start == Nth(Split(content, FENCE_OPEN), 1)
    IN IF ~start.some
       THEN Err("ExtractionError", "No code block start found")
       ELSE LET block == Nth(Split(start.val, FENCE_CLOSE), 0)
            IN IF ~block.some
               THEN Err("ExtractionError", "No code block end found")
               ELSE Ok(block.val)

CodeBlock(content) ==
    LET start == Nth(Split(content, FENCE_OPEN), 1)
    IN IF ~start.some
       THEN Err("ExtractionError", "No code block start found")
       ELSE LET block == Nth(Split(start.val, FENCE_CLOSE), 0)
            IN IF ~block.some
               THEN Err("ExtractionError", "No code block end found")
               ELSE Ok(Trim(block.val))

----------------------------------------------------------------------------
(* ChatGPT *)

CHAT_URL == "https://api.openai.com/v1/chat/completions"
CHAT_MODEL == "gpt-3.5-turbo"

\* serde(rename_all = "lowercase") on enum Role
RoleToken(role) ==
    CASE role = "User" -> "user"
      [] role = "System" -> "system"
      [] role = "Assistant" -> "assistant"

ChatMessage(role, content) == [role |-> role, content |-> content]

AddMessageFront(msgs, role, content) == <<ChatMessage(role, content)>> \o msgs

ChatGPT_add_message(msgs, role, content) == Append(msgs, ChatMessage(role, content))

ChatBodyLastTurnOnly(msgs) ==
    [model |-> CHAT_MODEL,
     messages |-> IF msgs = <<>> THEN <<>>
                  ELSE <<[role |-> RoleToken(msgs[Len(msgs)].role),
                          content |-> msgs[Len(msgs)].content]>>]

\* serde_json::to_string(&self.chat)
ChatGPT_body(msgs) ==
    [model |-> CHAT_MODEL,
     messages |-> [i \in 1..Len(msgs) |->
                     [role |-> RoleToken(msgs[i].role), content |-> msgs[i].content]]]

ChatRequestRetried(req, remote) ==
    IF remote.t = "transport_fail" THEN <<req, req>> ELSE <<req>>

\* request(request_body).await: the requests put on the wire
ChatGPT_request(req, remote) == <<req>>

ChatSendPushBeforeParse(msgs, proxy, remote) ==
    LET sent == ChatGPT_request(HttpRequest(CHAT_URL, proxy, ChatGPT_body(msgs)), remote)
    IN IF proxy = "invalid"
       THEN [result |-> Panic("called Result::unwrap() on an Err value"),
             messages |-> msgs, sent |-> <<>>]
       ELSE CASE remote.t = "transport_fail" ->
                   [result |-> Err("TransportError", ""), messages |-> msgs, sent |-> sent]
              [] remote.t = "bad_body" ->
                   [result |-> Err("ProtocolError", ""),
                    messages |-> ChatGPT_add_message(msgs, "Assistant", <<>>), sent |-> sent]
              [] OTHER ->
                   IF remote.choices = <<>>
                   THEN [result |-> Panic("index out of bounds"),
                         messages |-> msgs, sent |-> sent]
                   ELSE [result |-> Unit,
                         messages |-> ChatGPT_add_message(msgs, "Assistant", remote.choices[1]),
                         sent |-> sent]

\* completion() from the parse of URL on: the connector, the request, the
\* round trip, the parse of the response and the push of the assistant turn
ChatGPT_send(msgs, proxy, remote) ==
    LET sent == ChatGPT_request(HttpRequest(CHAT_URL, proxy, ChatGPT_body(msgs)), remote)
    IN IF proxy = "invalid"
       THEN [result |-> Panic("called Result::unwrap() on an Err value"),
             messages |-> msgs, sent |-> <<>>]
       ELSE CASE remote.t = "transport_fail" ->
                   [result |-> Err("TransportError", ""), messages |-> msgs, sent |-> sent]
              [] remote.t = "bad_body" ->
                   [result |-> Err("ProtocolError", ""), messages |-> msgs, sent |-> sent]
              [] OTHER ->
                   IF remote.choices = <<>>
                   THEN [result |-> Panic("index out of bounds"),
                         messages |-> msgs, sent |-> sent]
                   ELSE [result |-> Unit,
                         messages |-> ChatGPT_add_message(msgs, "Assistant", remote.choices[1]),
                         sent |-> sent]

ChatCompletionNoKeyCheck(msgs, key, proxy, remote) == ChatGPT_send(msgs, proxy, remote)

ChatGPT_completion(msgs, key, proxy, remote) ==
    IF ~key
    THEN [result |-> Panic("OPENAI_API_KEY is not set"), messages |-> msgs, sent |-> <<>>]
    ELSE ChatGPT_send(msgs, proxy, remote)

ChatExtractNoTrim(msgs) ==
    IF msgs = <<>>
    THEN Panic("attempt to subtract with overflow")
    ELSE ExtractNoTrim(msgs[Len(msgs)].content)

ChatGPT_extract_code(msgs) ==
    IF msgs = <<>>
    THEN Panic("attempt to subtract with overflow")
    ELSE CodeBlock(msgs[Len(msgs)].content)

ChatGPT_code_completion(msgs, rtOk, key, proxy, remote) ==
    IF ~rtOk
    THEN [result |-> Err("RuntimeError", ""), messages |-> msgs, sent |-> <<>>]
    ELSE LET c == ChatGPT_completion(msgs, key, proxy, remote)
         IN IF c.result.kind # "Ok"
            THEN c
            ELSE [c EXCEPT !.result = ChatGPT_extract_code(c.messages)]

----------------------------------------------------------------------------
(* TextCompletion *)

TEXT_URL == "https://api.openai.com/v1/completions"
TEXT_MODEL == "text-davinci-003"
MAX_TOKENS == 1024
TEMPERATURE == 0

NoResponse == [some |-> FALSE, choices |-> <<>>]
SomeResponse(cs) == [some |-> TRUE, choices |-> cs]

AddPromptNewlineAfter(p, content) == (p \o content) \o NL

TextCompletion_add_prompt(p, content) == (p \o NL) \o content

\* serde_json::to_string(&self.request)
TextCompletion_body(p) ==
    [model |-> TEXT_MODEL, prompt |-> p, max_tokens |-> MAX_TOKENS,
     temperature |-> TEMPERATURE]

\* request(request_body).await: the requests put on the wire
TextCompletion_request(req, remote) == <<req>>

\* completion() from the parse of URL on
TextCompletion_send(p, resp, proxy, remote) ==
    LET sent == TextCompletion_request(
                    HttpRequest(TEXT_URL, proxy, TextCompletion_body(p)), remote)
    IN IF proxy = "invalid"
       THEN [result |-> Panic("called Result::unwrap() on an Err value"),
             response |-> resp, sent |-> <<>>]
       ELSE CASE remote.t = "transport_fail" ->
                   [result |-> Err("TransportError", ""), response |-> resp, sent |-> sent]
              [] remote.t = "bad_body" ->
                   [result |-> Err("ProtocolError", ""), response |-> resp, sent |-> sent]
              [] OTHER ->
                   IF remote.choices = <<>>
                   THEN [result |-> Panic("index out of bounds"),
                         response |-> resp, sent |-> sent]
                   ELSE [result |-> Unit,
                         response |-> SomeResponse(remote.choices), sent |-> sent]

TextCompletion_completion(p, resp, key, proxy, remote) ==
    IF ~key
    THEN [result |-> Panic("OPENAI_API_KEY is not set"), response |-> resp, sent |-> <<>>]
    ELSE TextCompletion_send(p, resp, proxy, remote)

TextCompletion_extract_code(resp) ==
    IF ~resp.some
    THEN Err("ExtractionError", "No response")
    ELSE IF resp.choices = <<>>
         THEN Panic("index out of bounds")
         ELSE CodeBlock(resp.choices[1])

TextCompletion_code_completion(p, resp, rtOk, key, proxy, remote) ==
    IF ~rtOk
    THEN [result |-> Err("RuntimeError", ""), response |-> resp, sent |-> <<>>]
    ELSE LET c == TextCompletion_completion(p, resp, key, proxy, remote)
         IN IF c.result.kind # "Ok"
            THEN c
            ELSE [c EXCEPT !.result = TextCompletion_extract_code(c.response)]

----------------------------------------------------------------------------
(* The inputs of a session *)

\* the prompts handed to init and add_context
Texts == {<<"S">>, <<"U">>}

\* replies of the model: prose around one closed block, prose only, a block
\* that is opened and never closed
GoodReply == Concat(<<<<"x">>, FENCE_OPEN, NL, <<"A">>, NL, FENCE_CLOSE, <<"y">>>>)
ProseReply == <<"n", "o">>
UnclosedReply == Concat(<<FENCE_OPEN, NL, <<"B">>>>)

ChoiceLists ==
    {<<>>, <<GoodReply>>, <<ProseReply>>, <<UnclosedReply>>, <<GoodReply, ProseReply>>}

Remotes == {TransportFail, BadBody} \cup {Parsed(cs) : cs \in ChoiceLists}

NoInput == [wrapped |-> FALSE, L |-> <<>>, pre |-> <<>>, T |-> <<>>, post |-> <<>>]

Call(op, arg, rtOk, remote, result) ==
    [op |-> op, arg |-> arg, rtOk |-> rtOk, remote |-> remote, result |-> result]

\* whether code_completion gets as far as the round trip
ReachesSend(rtOk) == rtOk /\ apiKey /\ httpProxy # "invalid"

----------------------------------------------------------------------------
(* The session: new(), then init, add_context and code_completion *)

Init ==
    /\ backend \in Backends
    /\ messages = <<>>
    /\ prompt = <<>>
    /\ response = NoResponse
    /\ apiKey \in BOOLEAN
    /\ httpProxy \in ProxyStates
    /\ requests = <<>>
    /\ calls = <<>>
    /\ input = NoInput

ChatInitAsUserTurn(init_prompt) ==
    /\ backend = "ChatGPT"
    /\ Len(calls) < MaxCalls
    /\ messages' = ChatGPT_add_message(messages, "User", init_prompt)
    /\ calls' = Append(calls, Call("init", init_prompt, TRUE, NoRemote, Unit))
    /\ UNCHANGED <<backend, prompt, response, apiKey, httpProxy, requests, input>>

ChatGPT_init(init_prompt) ==
    /\ backend = "ChatGPT"
    /\ Len(calls) < MaxCalls
    /\ messages' = ChatGPT_add_message(messages, "System", init_prompt)
    /\ calls' = Append(calls, Call("init", init_prompt, TRUE, NoRemote, Unit))
    /\ UNCHANGED <<backend, prompt, response, apiKey, httpProxy, requests, input>>

ChatGPT_add_context(context) ==
    /\ backend = "ChatGPT"
    /\ Len(calls) < MaxCalls
    /\ messages' = ChatGPT_add_message(messages, "User", context)
    /\ calls' = Append(calls, Call("add_context", context, TRUE, NoRemote, Unit))
    /\ UNCHANGED <<backend, prompt, response, apiKey, httpProxy, requests, input>>

ChatGPT_generate(rtOk, remote) ==
    /\ backend = "ChatGPT"
    /\ Len(calls) < MaxCalls
    /\ remote \in (IF ReachesSend(rtOk) THEN Remotes ELSE {NoRemote})
    /\ LET r == ChatGPT_code_completion(messages, rtOk, apiKey, httpProxy, remote)
       IN /\ messages' = r.messages
          /\ requests' = requests \o r.sent
          /\ calls' = Append(calls, Call("code_completion", <<>>, rtOk, remote, r.result))
    /\ UNCHANGED <<backend, prompt, response, apiKey, httpProxy, input>>

TextCompletion_init(init_prompt) ==
    /\ backend = "TextCompletion"
    /\ Len(calls) < MaxCalls
    /\ prompt' = TextCompletion_add_prompt(prompt, init_prompt)
    /\ calls' = Append(calls, Call("init", init_prompt, TRUE, NoRemote, Unit))
    /\ UNCHANGED <<backend, messages, response, apiKey, httpProxy, requests, input>>

TextCompletion_add_context(context) ==
    /\ backend = "TextCompletion"
    /\ Len(calls) < MaxCalls
    /\ prompt' = TextCompletion_add_prompt(prompt, context)
    /\ calls' = Append(calls, Call("add_context", context, TRUE, NoRemote, Unit))
    /\ UNCHANGED <<backend, messages, response, apiKey, httpProxy, requests, input>>

TextCompletion_generate(rtOk, remote) ==
    /\ backend = "TextCompletion"
    /\ Len(calls) < MaxCalls
    /\ remote \in (IF ReachesSend(rtOk) THEN Remotes ELSE {NoRemote})
    /\ LET r == TextCompletion_code_completion(prompt, response, rtOk, apiKey, httpProxy, remote)
       IN /\ response' = r.response
          /\ requests' = requests \o r.sent
          /\ calls' = Append(calls, Call("code_completion", <<>>, rtOk, remote, r.result))
    /\ UNCHANGED <<backend, messages, prompt, apiKey, httpProxy, input>>

Next ==
    \/ \E s \in Texts : ChatGPT_init(s)
    \/ \E s \in Texts : ChatGPT_add_context(s)
    \/ \E rtOk \in BOOLEAN, remote \in Remotes \cup {NoRemote} : ChatGPT_generate(rtOk, remote)
    \/ \E s \in Texts : TextCompletion_init(s)
    \/ \E s \in Texts : TextCompletion_add_context(s)
    \/ \E rtOk \in BOOLEAN, remote \in Remotes \cup {NoRemote} :
           TextCompletion_generate(rtOk, remote)

Spec == Init /\ [][Next]_vars

----------------------------------------------------------------------------
(* extract_code on its own: the session as completion() leaves it after a  *)
(* reply whose choice 0 is the text of the input, then extract_code        *)

Pieces == {FENCE_OPEN, FENCE_CLOSE, <<TICK>>, <<"x">>, SP, NL}

RECURSIVE PieceTexts(_)
PieceTexts(n) ==
    IF n = 0 THEN {<<>>}
    ELSE LET shorter == PieceTexts(n - 1)
         IN shorter \cup {t \o p : t \in shorter, p \in Pieces}

\* language tags a fence may carry
Langs == {RUST, <<"p", "y">>, RUST \o <<"c">>}

\* whitespace put around T inside the fence
Pads == {<<>>, SP, NL \o SP}

ExtractInputs ==
    {[wrapped |-> FALSE, L |-> <<>>, pre |-> <<>>, T |-> t, post |-> <<>>] :
        t \in PieceTexts(MaxPieces)}
    \cup
    {[wrapped |-> TRUE, L |-> l, pre |-> a, T |-> t, post |-> b] :
        l \in Langs, a \in Pads, t \in PieceTexts(MaxBodyPieces), b \in Pads}

\* the text T wrapped as: fence with tag L, newline, T, newline, closing fence
Wrap(l, t) == Concat(<<TICKS, l, NL, t, NL, TICKS>>)

InputText(in) ==
    IF in.wrapped THEN Wrap(in.L, Concat(<<in.pre, in.T, in.post>>)) ELSE in.T

InitExtract ==
    /\ input \in ExtractInputs
    /\ backend \in Backends
    /\ apiKey = TRUE
    /\ httpProxy = "unset"
    /\ prompt = <<>>
    /\ calls = <<>>
    /\ LET remote == Parsed(<<InputText(input)>>)
           c == ChatGPT_completion(<<>>, apiKey, httpProxy, remote)
           t == TextCompletion_completion(<<>>, NoResponse, apiKey, httpProxy, remote)
       IN /\ messages = IF backend = "ChatGPT" THEN c.messages ELSE <<>>
          /\ response = IF backend = "TextCompletion" THEN t.response ELSE NoResponse
          /\ requests = IF backend = "ChatGPT" THEN c.sent ELSE t.sent

ChatGPT_extract ==
    /\ backend = "ChatGPT"
    /\ calls = <<>>
    /\ calls' = <<Call("code_completion", <<>>, TRUE, Parsed(<<InputText(input)>>),
                       ChatGPT_extract_code(messages))>>
    /\ UNCHANGED <<backend, messages, prompt, response, apiKey, httpProxy, requests, input>>

TextCompletion_extract ==
    /\ backend = "TextCompletion"
    /\ calls = <<>>
    /\ calls' = <<Call("code_completion", <<>>, TRUE, Parsed(<<InputText(input)>>),
                       TextCompletion_extract_code(response))>>
    /\ UNCHANGED <<backend, messages, prompt, response, apiKey, httpProxy, requests, input>>

NextExtract ==
    \/ ChatGPT_extract
    \/ TextCompletion_extract

SpecExtract == InitExtract /\ [][NextExtract]_vars

----------------------------------------------------------------------------
(* Properties *)

IsGenerate(c) == c.op = "code_completion"
Generates == {i \in 1..Len(calls) : IsGenerate(calls[i])}
OnlyPromptCalls == \A i \in 1..Len(calls) : calls[i].op \in {"init", "add_context"}
AllGeneratesOk == \A i \in Generates : calls[i].result.kind = "Ok"

\* the turn a call stands for: init a system turn, add_context a user turn, a
\* successful code_completion an assistant turn with the content of choice 0
TurnOf(c) ==
    CASE c.op = "init" -> [role |-> "System", content |-> c.arg]
      [] c.op = "add_context" -> [role |-> "User", content |-> c.arg]
      [] OTHER -> [role |-> "Assistant", content |-> c.remote.choices[1]]

\* C1: in a Chat session whose code_completion calls all succeeded, the
\* conversation is exactly the turns of the calls in call order: a system turn
\* per init, a user turn per add_context, and one assistant turn holding the
\* reply per successful code_completion, appended at the end.
C1_ChatConversationIsCallOrder ==
    (backend = "ChatGPT" /\ AllGeneratesOk) =>
        messages = [i \in 1..Len(calls) |-> TurnOf(calls[i])]

C1_Witness ==
    /\ backend = "ChatGPT"
    /\ Len(calls) = 4
    /\ calls[1].op = "init" /\ calls[2].op = "add_context" /\ calls[3].op = "add_context"
    /\ calls[2].arg # calls[1].arg
    /\ IsGenerate(calls[4]) /\ calls[4].result.kind = "Ok"
    /\ Len(messages) = 4
    /\ messages[4] = [role |-> "Assistant", content |-> GoodReply]

RECURSIVE PromptOf(_)
PromptOf(cs) ==
    IF cs = <<>> THEN <<>>
    ELSE PromptOf(SubSeq(cs, 1, Len(cs) - 1)) \o <<"\n">> \o cs[Len(cs)].arg

\* C2: in a Completion session, after init / add_context calls with texts
\* t1..tn the prompt buffer is newline t1 newline t2 ... newline tn, in call
\* order and without deduplication.
C2_PromptIsNewlineSeparatedAppends ==
    (backend = "TextCompletion" /\ OnlyPromptCalls) => prompt = PromptOf(calls)

C2_Witness ==
    /\ backend = "TextCompletion"
    /\ Len(calls) = 3
    /\ OnlyPromptCalls
    /\ calls[1].op = "init" /\ calls[2].op = "add_context"
    /\ calls[2].arg = calls[3].arg
    /\ prompt = <<"\n", "S", "\n", "U", "\n", "U">>

NothingStored ==
    /\ \A i \in 1..Len(messages) : messages[i].role # "Assistant"
    /\ response = NoResponse

----------------------------------------------------------------------------
(* Properties of extract_code, under SpecExtract *)

Extracted == calls # <<>>
Occurrences(s, pat) ==
    {i \in 1..(Len(s) - Len(pat) + 1) : SubSeq(s, i, i + Len(pat) - 1) = pat}
Contains(s, pat) == Occurrences(s, pat) # {}

\* what follows the first opening fence of a text that has one
AfterOpener(s) ==
    LET i == CHOOSE k \in Occurrences(s, FENCE_OPEN) :
                 \A j \in Occurrences(s, FENCE_OPEN) : k <= j
    IN SubSeq(s, i + Len(FENCE_OPEN), Len(s))

OpenedNeverClosed(s) ==
    Contains(s, FENCE_OPEN) /\ ~Contains(AfterOpener(s), FENCE_CLOSE)

\* C5 as stated: extract_code on a reply with the opening fence and no closing
\* fence after it fails with the error No code block end found.
C5_UnclosedFenceIsExtractionError ==
    (Extracted /\ OpenedNeverClosed(InputText(input))) =>
        calls[1].result = Err("ExtractionError", "No code block end found")

\* C6 as stated: for any text T and any tag L, extract_code on the fence with
\* tag L around T (with any whitespace added around T inside the fence)
\* returns T trimmed.
C6_RoundTripAnyTagAnyText ==
    (Extracted /\ input.wrapped) => calls[1].result = Ok(Trim(input.T))

\* C6 as amended: for the tag rust, the one tag the code looks for, and any
\* text T that holds no run of three backquotes, extract_code on the fence
\* around T returns exactly T trimmed, and whitespace added around T inside
\* the fence does not change the result.
C6_RoundTripRustTagNoFenceInText ==
    (Extracted /\ input.wrapped /\ input.L = RUST /\ ~Contains(input.T, TICKS)) =>
        calls[1].result = Ok(Trim(input.T))

C6_Witness ==
    /\ Extracted
    /\ input.wrapped /\ input.L = RUST
    /\ input.T = <<" ", "x">>
    /\ input.pre = <<"\n", " ">> /\ input.post = <<" ">>
    /\ calls[1].result = Ok(<<"x">>)

----------------------------------------------------------------------------
(* Properties of the Chat conversation *)

LastCall == calls'[Len(calls')]
GenerateStep == Len(calls') = Len(calls) + 1 /\ IsGenerate(LastCall)

RoleTokens == {<<"System", "system">>, <<"User", "user">>, <<"Assistant", "assistant">>}

\* C7: every request a Chat code_completion issues carries the whole
\* conversation as it is at the call: as many turns, in the same order, each
\* with its role (in lowercase) and its content.
C7_RequestCarriesWholeConversation ==
    [][(backend = "ChatGPT" /\ GenerateStep) =>
          \A k \in (Len(requests) + 1)..Len(requests') :
              LET sentTurns == requests'[k].body.messages
              IN /\ Len(sentTurns) = Len(messages)
                 /\ \A i \in 1..Len(messages) :
                        /\ sentTurns[i].content = messages[i].content
                        /\ <<messages[i].role, sentTurns[i].role>> \in RoleTokens]_vars

C7_Witness ==
    /\ backend = "ChatGPT"
    /\ Len(requests) = 2
    /\ Len(requests[2].body.messages) = 3
    /\ requests[2].body.messages[1] = [role |-> "system", content |-> <<"S">>]
    /\ requests[2].body.messages[2] = [role |-> "user", content |-> <<"U">>]
    /\ requests[2].body.messages[3] = [role |-> "assistant", content |-> GoodReply]

\* C8 as stated: the first turn of a Chat conversation, if present, has role
\* system, after calls in any order.
C8_FirstTurnIsSystem ==
    (backend = "ChatGPT" /\ messages # <<>>) => messages[1].role = "System"

\* C8 as amended: in every reachable state of a Chat session whose first call
\* was init(S), the first turn of the conversation is the system turn with
\* content S; the code appends only and does not check the order of calls.
C8_FirstTurnIsSystemWhenInitIsFirst ==
    (backend = "ChatGPT" /\ calls # <<>> /\ calls[1].op = "init") =>
        /\ messages # <<>>
        /\ messages[1] = [role |-> "System", content |-> calls[1].arg]

C8_Witness ==
    /\ backend = "ChatGPT"
    /\ Len(calls) = 4 /\ calls[1].op = "init" /\ calls[2].op = "add_context"
    /\ calls[3].op = "init"
    /\ IsGenerate(calls[4])
    /\ Len(messages) = 4
    /\ messages[1].role = "System"

\* C9 as stated: a reply that parses and has no choice makes code_completion
\* return a ProtocolError to the caller as an error value.
C9_EmptyChoicesIsProtocolError ==
    \A i \in Generates :
        (calls[i].remote = Parsed(<<>>)) =>
            calls[i].result.kind = "Err" /\ calls[i].result.error = "ProtocolError"

\* C10 as stated: when a Chat code_completion returns an error of any kind the
\* conversation after the call is the conversation before it.
C10_ErrorLeavesConversationUnchanged ==
    [][(backend = "ChatGPT" /\ GenerateStep /\ LastCall.result.kind = "Err") =>
          messages' = messages]_vars

\* C10 as amended: a Chat code_completion appends the assistant turn exactly
\* when completion() succeeds, that is when the reply parsed and has a choice
\* 0, before extract_code runs: the conversation is unchanged when the call
\* ends with a runtime, transport or protocol error or a panic, and is the
\* old conversation plus the turn {assistant, R} when the call succeeds and
\* also when it ends with an extraction error.
C10_AssistantTurnAppendedWhenCompletionSucceeds ==
    [][(backend = "ChatGPT" /\ GenerateStep) =>
          IF LastCall.result.kind = "Ok" \/ LastCall.result.error = "ExtractionError"
          THEN messages' = Append(messages, [role |-> "Assistant",
                                             content |-> LastCall.remote.choices[1]])
          ELSE messages' = messages]_vars

C10_Witness ==
    /\ backend = "ChatGPT"
    /\ Len(calls) = 4
    /\ calls[1].op = "init"
    /\ calls[2].result.error = "TransportError"
    /\ calls[3].result.error = "ProtocolError"
    /\ calls[4].result.error = "ExtractionError"
    /\ messages = <<[role |-> "System", content |-> calls[1].arg],
                    [role |-> "Assistant", content |-> ProseReply]>>

====
